---- MODULE Spec2Model ----
(***************************************************************************)
(* Model of scripts/generate_musicals.py: the CSV row -> JSON record       *)
(* pipeline (cell normalisation, visibility / identity / uniqueness        *)
(* filter, date-derived status, soon-window flags, single final write).    *)
(*                                                                         *)
(* Text is modelled as a sequence of one-character strings, so that        *)
(* strip / lower / isdigit / int / float / strptime are computed on the    *)
(* characters the way the Python code computes them.                       *)
(***************************************************************************)
EXTENDS Integers, Sequences, FiniteSets, TLC

(***************************************************************************)
(* Python values.  Every value is a record with the same four fields, so   *)
(* values of different Python types can be compared and kept in one set.   *)
(*   t = "str"    s = the characters                                       *)
(*   t = "int"    n = the integer                                          *)
(*   t = "float"  n / 10^e, with no trailing zero in the fraction          *)
(*   t = "date"   n = the proleptic Gregorian ordinal (date.toordinal())   *)
(*   t = "None"                                                            *)
(*   t = "ValueError"  marks a raised exception in place of a result       *)
(***************************************************************************)
PyStr(s) == [t |-> "str", s |-> s, n |-> 0, e |-> 0]
PyInt(n) == [t |-> "int", s |-> <<>>, n |-> n, e |-> 0]
PyFloat(n, e) == [t |-> "float", s |-> <<>>, n |-> n, e |-> e]
PyDate(n) == [t |-> "date", s |-> <<>>, n |-> n, e |-> 0]
None == [t |-> "None", s |-> <<>>, n |-> 0, e |-> 0]
ValueError == [t |-> "ValueError", s |-> <<>>, n |-> 0, e |-> 0]

\* bool(v): None, "", 0 and 0.0 are falsy; every date is truthy.
Truthy(v) ==
  CASE v.t = "None" -> FALSE
    [] v.t = "str" -> v.s # <<>>
    [] v.t = "int" -> v.n # 0
    [] v.t = "float" -> v.n # 0
    [] OTHER -> TRUE

\* a or b
PyOr(a, b) == IF Truthy(a) THEN a ELSE b

\* a == b: numbers compare by value across int and float (1 == 1.0),
\* everything else by type and content.
PyEq(a, b) ==
  IF a.t \in {"int", "float"} /\ b.t \in {"int", "float"}
  THEN a.n = b.n /\ a.e = b.e
  ELSE a = b

\* x in s, for a set s of values (hash and == agree for int and float).
PyIn(x, s) == \E y \in s : PyEq(x, y)

(***************************************************************************)
(* Characters and str methods.                                             *)
(***************************************************************************)
Digits == {"0", "1", "2", "3", "4", "5", "6", "7", "8", "9"}
Whitespace == {" "}

DigitVal(c) ==
  CASE c = "0" -> 0 [] c = "1" -> 1 [] c = "2" -> 2 [] c = "3" -> 3
    [] c = "4" -> 4 [] c = "5" -> 5 [] c = "6" -> 6 [] c = "7" -> 7
    [] c = "8" -> 8 [] c = "9" -> 9

DigitChr(d) ==
  CASE d = 0 -> "0" [] d = 1 -> "1" [] d = 2 -> "2" [] d = 3 -> "3"
    [] d = 4 -> "4" [] d = 5 -> "5" [] d = 6 -> "6" [] d = 7 -> "7"
    [] d = 8 -> "8" [] d = 9 -> "9"

\* str.lower() on one character, for the letters the feeds of the model use.
LowerChr(c) ==
  CASE c = "N" -> "n" [] c = "O" -> "o" [] c = "E" -> "e"
    [] c = "T" -> "t" [] c = "R" -> "r" [] c = "U" -> "u"
    [] OTHER -> c

lower(s) == [i \in 1..Len(s) |-> LowerChr(s[i])]

RECURSIVE lstrip(_)
lstrip(s) ==
  IF s # <<>> /\ Head(s) \in Whitespace THEN lstrip(Tail(s)) ELSE s

RECURSIVE rstrip(_)
rstrip(s) ==
  IF s # <<>> /\ s[Len(s)] \in Whitespace
  THEN rstrip(SubSeq(s, 1, Len(s) - 1))
  ELSE s

strip(s) == rstrip(lstrip(s))

isdigit(s) == s # <<>> /\ \A i \in 1..Len(s) : s[i] \in Digits

startswith(s, c) == s # <<>> /\ s[1] = c

contains(s, c) == \E i \in 1..Len(s) : s[i] = c

\* value of a sequence of digits, leading zeros allowed
RECURSIVE DigitsVal(_)
DigitsVal(s) ==
  IF s = <<>> THEN 0
  ELSE 10 * DigitsVal(SubSeq(s, 1, Len(s) - 1)) + DigitVal(s[Len(s)])

\* the decimal digits of n >= 0
RECURSIVE NatStr(_)
NatStr(n) ==
  IF n < 10 THEN <<DigitChr(n)>> ELSE Append(NatStr(n \div 10), DigitChr(n % 10))

\* the digits of n >= 0, zero-padded to at least w characters
RECURSIVE Pad(_, _)
Pad(s, w) == IF Len(s) >= w THEN s ELSE Pad(<<"0">> \o s, w)

\* int(s) for the texts the guard of normalize_cell lets through
PyIntOf(s) ==
  IF startswith(s, "-") THEN PyInt(0 - DigitsVal(Tail(s))) ELSE PyInt(DigitsVal(s))

\* n / 10^e with the trailing zeros of the fraction removed
RECURSIVE NormFloat(_, _)
NormFloat(n, e) ==
  IF e > 0 /\ n % 10 = 0 THEN NormFloat(n \div 10, e - 1) ELSE PyFloat(n, e)

IndexOf(s, c) == CHOOSE i \in 1..Len(s) : s[i] = c /\ \A j \in 1..(i - 1) : s[j] # c

\* float(s): [sign] digits [. digits] with at least one digit; any other text
\* (the model's texts have no exponent, "inf", "nan" or "_") raises ValueError.
PyFloatOf(s) ==
  LET signed == s # <<>> /\ s[1] \in {"-", "+"}
      body == IF signed THEN Tail(s) ELSE s
      neg == signed /\ s[1] = "-"
  IN IF ~contains(body, ".")
     THEN IF isdigit(body)
          THEN NormFloat(IF neg THEN 0 - DigitsVal(body) ELSE DigitsVal(body), 0)
          ELSE ValueError
     ELSE LET p == IndexOf(body, ".")
              ip == SubSeq(body, 1, p - 1)
              fp == SubSeq(body, p + 1, Len(body))
              wellFormed == /\ \A i \in 1..Len(ip) : ip[i] \in Digits
                            /\ \A i \in 1..Len(fp) : fp[i] \in Digits
                            /\ Len(ip) + Len(fp) > 0
              m == DigitsVal(ip \o fp)
          IN IF wellFormed
             THEN NormFloat(IF neg THEN 0 - m ELSE m, Len(fp))
             ELSE ValueError

RECURSIVE Pow10(_)
Pow10(e) == IF e = 0 THEN 1 ELSE 10 * Pow10(e - 1)

\* str(v) for the value of a cell: the text itself, the decimal digits of an
\* int, the shortest decimal ("1.0", "2.5") of a float.
str(v) ==
  CASE v.t = "str" -> v.s
    [] v.t = "int" ->
         IF v.n < 0 THEN <<"-">> \o NatStr(0 - v.n) ELSE NatStr(v.n)
    [] v.t = "float" ->
         LET a == IF v.n < 0 THEN 0 - v.n ELSE v.n
             ip == NatStr(a \div Pow10(v.e))
             fp == IF v.e = 0 THEN <<"0">> ELSE Pad(NatStr(a % Pow10(v.e)), v.e)
         IN (IF v.n < 0 THEN <<"-">> ELSE <<>>) \o ip \o <<".">> \o fp

(***************************************************************************)
(* normalize_cell.  A raw cell is None (a short row: DictReader's restval)  *)
(* or text.                                                                *)
(***************************************************************************)
KEEP_EMPTY_AS_EMPTY_STRING == TRUE

normalize_cell(v) ==
  IF v = None THEN (IF KEEP_EMPTY_AS_EMPTY_STRING THEN PyStr(<<>>) ELSE None)
  ELSE LET s == strip(v.s)
           asInt == PyIntOf(s)
           asFloat == PyFloatOf(s)
       IN IF s = <<>> THEN (IF KEEP_EMPTY_AS_EMPTY_STRING THEN PyStr(<<>>) ELSE None)
          ELSE IF lower(s) = <<"n", "o", "n", "e">> THEN PyStr(<<"n", "o", "n", "e">>)
          ELSE IF isdigit(s) \/ (startswith(s, "-") /\ isdigit(Tail(s))) THEN asInt
          ELSE IF contains(s, ".") /\ (\E i \in 1..Len(s) : s[i] \in Digits)
                  /\ asFloat # ValueError
               THEN asFloat
          ELSE PyStr(s)

(***************************************************************************)
(* Dates: datetime.strptime(s, "%Y-%m-%d").date(), date.toordinal(),       *)
(* date.isoformat().                                                       *)
(***************************************************************************)
IsLeap(y) == (y % 4 = 0) /\ ((y % 100 # 0) \/ (y % 400 = 0))

DaysInMonth(y, m) ==
  IF m = 2 THEN (IF IsLeap(y) THEN 29 ELSE 28)
  ELSE IF m \in {4, 6, 9, 11} THEN 30 ELSE 31

RECURSIVE DaysBeforeMonth(_, _)
DaysBeforeMonth(y, m) ==
  IF m = 1 THEN 0 ELSE DaysBeforeMonth(y, m - 1) + DaysInMonth(y, m - 1)

DaysBeforeYear(y) ==
  LET p == y - 1 IN 365 * p + (p \div 4) - (p \div 100) + (p \div 400)

\* date(y, m, d).toordinal()
Ordinal(y, m, d) == DaysBeforeYear(y) + DaysBeforeMonth(y, m) + d

\* %m matches 1[0-2] | 0[1-9] | [1-9]
MonthToken(s) ==
  \/ Len(s) = 2 /\ s[1] = "1" /\ s[2] \in {"0", "1", "2"}
  \/ Len(s) = 2 /\ s[1] = "0" /\ s[2] \in Digits \ {"0"}
  \/ Len(s) = 1 /\ s[1] \in Digits \ {"0"}

\* %d matches 3[01] | [12]\d | 0[1-9] | [1-9] | " "[1-9]
DayToken(s) ==
  \/ Len(s) = 2 /\ s[1] = "3" /\ s[2] \in {"0", "1"}
  \/ Len(s) = 2 /\ s[1] \in {"1", "2"} /\ s[2] \in Digits
  \/ Len(s) = 2 /\ s[1] \in {"0", " "} /\ s[2] \in Digits \ {"0"}
  \/ Len(s) = 1 /\ s[1] \in Digits \ {"0"}

\* strptime(s, "%Y-%m-%d").date(): the date, or ValueError when the text does
\* not match the format entirely or names no day of the calendar.
strptime(s) ==
  IF Len(s) < 8 \/ ~isdigit(SubSeq(s, 1, 4)) \/ s[5] # "-"
  THEN ValueError
  ELSE LET rest == SubSeq(s, 6, Len(s))
       IN IF ~contains(rest, "-") THEN ValueError
          ELSE LET p == IndexOf(rest, "-")
                   mt == SubSeq(rest, 1, p - 1)
                   dt == SubSeq(rest, p + 1, Len(rest))
                   y == DigitsVal(SubSeq(s, 1, 4))
                   m == DigitsVal(mt)
                   d == DigitsVal(lstrip(dt))
               IN IF MonthToken(mt) /\ DayToken(dt) /\ y >= 1 /\ d <= DaysInMonth(y, m)
                  THEN PyDate(Ordinal(y, m, d))
                  ELSE ValueError

parse_date(s0) ==
  LET s == strip(s0)
  IN IF s = <<>> \/ lower(s) = <<"n", "o", "n", "e">> THEN None ELSE strptime(s)

\* the year of the day with ordinal n (n >= 1)
YearOf(n) == CHOOSE y \in 1..((n \div 365) + 1) :
               DaysBeforeYear(y) < n /\ n <= DaysBeforeYear(y + 1)

MonthOf(y, r) == CHOOSE m \in 1..12 :
                   DaysBeforeMonth(y, m) < r /\ r <= DaysBeforeMonth(y, m) + DaysInMonth(y, m)

\* date.isoformat(): YYYY-MM-DD, zero-padded
isoformat(dv) ==
  LET y == YearOf(dv.n)
      r == dv.n - DaysBeforeYear(y)
      m == MonthOf(y, r)
      d == r - DaysBeforeMonth(y, m)
  IN Pad(NatStr(y), 4) \o <<"-">> \o Pad(NatStr(m), 2) \o <<"-">> \o Pad(NatStr(d), 2)

(***************************************************************************)
(* The helpers of the pipeline.                                            *)
(***************************************************************************)
SOON_WINDOW_DAYS_DEFAULT == 60

T_none == <<"n", "o", "n", "e">>
T_sentinel == <<"2", "0", "9", "9", "-", "1", "2", "-", "3", "1">>

\* faulty variant: the sentinel date is not among the placeholders
OPEN_ENDED_PLACEHOLDERS_NoSentinel == {PyStr(<<>>), PyStr(T_none), None}

OPEN_ENDED_PLACEHOLDERS == {PyStr(<<>>), PyStr(T_none), PyStr(T_sentinel), None}

\* The headers of the model carry no surrounding blanks, so k.strip() is k.
canonical_key(k) == IF k = "ID" THEN "id" ELSE k

\* dict.get(k, default)
Get(obj, k, default) == IF k \in DOMAIN obj THEN obj[k] ELSE default

\* faulty variant: the close test comes before the start test
compute_status_CloseFirst(start, close, today) ==
  IF Truthy(close) /\ today.n > close.n THEN "inactive"
  ELSE IF Truthy(start) /\ today.n < start.n THEN "future"
  ELSE "active"

\* faulty variant: the close comparison is the wrong way round
compute_status_CloseFlipped(start, close, today) ==
  IF Truthy(start) /\ today.n < start.n THEN "future"
  ELSE IF Truthy(close) /\ today.n < close.n THEN "inactive"
  ELSE "active"

compute_status(start, close, today) ==
  IF Truthy(start) /\ today.n < start.n THEN "future"
  ELSE IF Truthy(close) /\ today.n > close.n THEN "inactive"
  ELSE "active"

is_visible_on_app(obj) ==
  LET v0 == Get(obj, "visible_on_app", PyInt(0))
      v == IF v0.t = "str" THEN PyStr(strip(v0.s)) ELSE v0
  IN PyEq(v, PyInt(1)) \/ PyEq(v, PyStr(<<"1">>))

\* faulty variant: the window bound is exclusive
compute_soon_flags_Exclusive(status, start, close, today, window_days) ==
  LET days_until_start == IF Truthy(start) THEN PyInt(start.n - today.n) ELSE None
      days_until_close == IF Truthy(close) THEN PyInt(close.n - today.n) ELSE None
      coming_soon == /\ status = "future"
                     /\ days_until_start # None
                     /\ 0 <= days_until_start.n
                     /\ days_until_start.n < window_days
      closing_soon == /\ status = "active"
                      /\ days_until_close # None
                      /\ 0 <= days_until_close.n
                      /\ days_until_close.n < window_days
  IN [coming_soon |-> coming_soon, closing_soon |-> closing_soon,
      days_until_start |-> days_until_start, days_until_close |-> days_until_close]

compute_soon_flags(status, start, close, today, window_days) ==
  LET days_until_start == IF Truthy(start) THEN PyInt(start.n - today.n) ELSE None
      days_until_close == IF Truthy(close) THEN PyInt(close.n - today.n) ELSE None
      coming_soon == /\ status = "future"
                     /\ days_until_start # None
                     /\ 0 <= days_until_start.n
                     /\ days_until_start.n <= window_days
      closing_soon == /\ status = "active"
                      /\ days_until_close # None
                      /\ 0 <= days_until_close.n
                      /\ days_until_close.n <= window_days
  IN [coming_soon |-> coming_soon, closing_soon |-> closing_soon,
      days_until_start |-> days_until_start, days_until_close |-> days_until_close]

\* int(x) of line 89, for the default (an int) or the text of the variable
int(v) ==
  IF v.t = "int" THEN v
  ELSE LET z == strip(v.s)
       IN IF isdigit(z) \/ (startswith(z, "-") /\ isdigit(Tail(z)))
          THEN PyIntOf(z)
          ELSE ValueError

(***************************************************************************)
(* One pass of the body of the loop of main() over a row of the reader.    *)
(* A row is [cells |-> header -> raw cell, rest |-> whether the line had   *)
(* more cells than headers (DictReader keeps them in a list under None)].  *)
(***************************************************************************)
Blank(c) == c = None \/ strip(c.s) = <<>>

\* line 105: every cell is blank (the generator stops at the first cell that
\* is not, so the list under None is reached only after all the others)
AllBlank(row) == \A h \in DOMAIN row.cells : Blank(row.cells[h])

\* line 105 raises AttributeError: the list under None has no strip()
RowRaisesAtBlankTest(row) == AllBlank(row) /\ row.rest

\* lines 108-113
BuildObj(row) ==
  LET keys == {canonical_key(h) : h \in DOMAIN row.cells} \ {""}
  IN [k \in keys |->
        normalize_cell(row.cells[CHOOSE h \in DOMAIN row.cells : canonical_key(h) = k])]

\* lines 119-121
ShowId(obj) ==
  LET v == Get(obj, "id", None)
  IN IF v.t = "str" THEN PyStr(strip(v.s)) ELSE v

\* line 133
StartOf(obj) == parse_date(str(PyOr(Get(obj, "start_date", None), PyStr(<<>>))))

\* line 134
CloseRaw(obj) == strip(str(PyOr(Get(obj, "close_date", None), PyStr(<<>>))))

\* lines 136-138
CloseOf(obj) ==
  LET close_raw == CloseRaw(obj)
  IN IF close_raw # <<>> /\ ~PyIn(PyStr(close_raw), OPEN_ENDED_PLACEHOLDERS)
        /\ lower(close_raw) # T_none
     THEN parse_date(close_raw)
     ELSE None

\* lines 141-159: the record appended to musicals
Annotate(obj, today, window_days) ==
  LET start == StartOf(obj)
      close == CloseOf(obj)
      close_raw == CloseRaw(obj)
      status == compute_status(start, close, today)
      soon == compute_soon_flags(status, start, close, today, window_days)
      derived == {"start_date", "close_date", "status", "coming_soon",
                  "closing_soon", "days_until_start", "days_until_close"}
  IN [k \in DOMAIN obj \cup derived |->
        CASE k = "start_date" ->
               IF Truthy(start) THEN PyStr(isoformat(start))
               ELSE PyOr(Get(obj, "start_date", None), PyStr(<<>>))
          [] k = "close_date" ->
               IF close_raw # <<>> THEN PyStr(close_raw)
               ELSE PyOr(Get(obj, "close_date", None), PyStr(<<>>))
          [] k = "status" -> status
          [] k = "coming_soon" -> soon.coming_soon
          [] k = "closing_soon" -> soon.closing_soon
          [] k = "days_until_start" -> soon.days_until_start
          [] k = "days_until_close" -> soon.days_until_close
          [] OTHER -> obj[k]]

(***************************************************************************)
(* State.  environ, clock and sheet are the world the run reads (the       *)
(* environment variables, the calendar date, the published CSV); the rest  *)
(* is the state of one run of main().                                      *)
(***************************************************************************)
VARIABLES
  environ,      \* [SHEET_CSV_URL, SOON_WINDOW_DAYS]: text, or None when unset
  clock,        \* date.today()
  sheet,        \* [fieldnames, rows]: what the URL serves
  pc,           \* "env", "fetch", "rows", "done", "exit1", "raised"
  window_days,
  today,
  reader,       \* index of the next row the DictReader yields
  musicals,     \* the list of records built so far
  seen_ids,
  stderr,       \* the diagnostics printed; row is the index of the row that
                \* caused the line (0 when none), recorded for the properties
  kept,         \* kept[i] is the index of the row musicals[i] was built from
  out_file,     \* [written, content]: the file at OUT_PATH
  opens,        \* how many times the run opened OUT_PATH for writing
  lc            \* the arguments and results of the lifecycle functions when
                \* they are exercised on their own (SpecLifecycle)

run_vars == <<pc, window_days, today, reader, musicals, seen_ids, stderr, kept,
              out_file, opens>>
world_vars == <<environ, clock, sheet>>
vars == <<environ, clock, sheet, pc, window_days, today, reader, musicals,
          seen_ids, stderr, kept, out_file, opens, lc>>

PriorFile == [written |-> FALSE, content |-> <<>>]
NoSoon == [coming_soon |-> FALSE, closing_soon |-> FALSE,
           days_until_start |-> None, days_until_close |-> None]
LcIdle == [phase |-> "idle", start |-> None, close |-> None, today |-> None,
           window_days |-> 0, status |-> "", soon |-> NoSoon, prev |-> ""]

Diag(msg, id, row) == [msg |-> msg, id |-> id, row |-> row]

RunInit ==
  /\ pc = "env"
  /\ window_days = 0
  /\ today = None
  /\ reader = 0
  /\ musicals = <<>>
  /\ seen_ids = {}
  /\ stderr = <<>>
  /\ kept = <<>>
  /\ out_file = PriorFile
  /\ opens = 0

(***************************************************************************)
(* main(), lines 87-93.                                                    *)
(***************************************************************************)
\* line 89: os.environ.get("SOON_WINDOW_DAYS", SOON_WINDOW_DAYS_DEFAULT), then int()
WindowSetting ==
  int(IF environ.SOON_WINDOW_DAYS = None THEN PyInt(SOON_WINDOW_DAYS_DEFAULT)
      ELSE environ.SOON_WINDOW_DAYS)

\* line 89: int() of a SOON_WINDOW_DAYS that is no number raises ValueError
StartBadWindow ==
  /\ pc = "env"
  /\ WindowSetting = ValueError
  /\ pc' = "raised"
  /\ UNCHANGED <<window_days, today, reader, musicals, seen_ids, stderr, kept,
                 out_file, opens, lc>>
  /\ UNCHANGED world_vars

\* lines 91-93
StartMissingUrl ==
  /\ pc = "env"
  /\ WindowSetting # ValueError
  /\ ~Truthy(environ.SHEET_CSV_URL)
  /\ window_days' = WindowSetting.n
  /\ stderr' = Append(stderr, Diag("missing_url", None, 0))
  /\ pc' = "exit1"
  /\ UNCHANGED <<today, reader, musicals, seen_ids, kept, out_file, opens, lc>>
  /\ UNCHANGED world_vars

StartOk ==
  /\ pc = "env"
  /\ WindowSetting # ValueError
  /\ Truthy(environ.SHEET_CSV_URL)
  /\ window_days' = WindowSetting.n
  /\ pc' = "fetch"
  /\ UNCHANGED <<today, reader, musicals, seen_ids, stderr, kept, out_file, opens, lc>>
  /\ UNCHANGED world_vars

(***************************************************************************)
(* main(), lines 95-102: the date is read, then the sheet is fetched; the  *)
(* fetch may fail, and the exception is not caught.                        *)
(***************************************************************************)
FetchOk ==
  /\ pc = "fetch"
  /\ today' = clock
  /\ reader' = 1
  /\ musicals' = <<>>
  /\ seen_ids' = {}
  /\ pc' = "rows"
  /\ UNCHANGED <<window_days, stderr, kept, out_file, opens, lc>>
  /\ UNCHANGED world_vars

FetchFails ==
  /\ pc = "fetch"
  /\ today' = clock
  /\ pc' = "raised"
  /\ UNCHANGED <<window_days, reader, musicals, seen_ids, stderr, kept, out_file,
                 opens, lc>>
  /\ UNCHANGED world_vars

(***************************************************************************)
(* main(), lines 104-161: the body of the loop, one action per way out.    *)
(***************************************************************************)
HasRow == pc = "rows" /\ reader <= Len(sheet.rows)
Row == sheet.rows[reader]

\* lines 105-106
RowBlank ==
  /\ HasRow
  /\ AllBlank(Row) /\ ~Row.rest
  /\ reader' = reader + 1
  /\ UNCHANGED <<pc, window_days, today, musicals, seen_ids, stderr, kept,
                 out_file, opens, lc>>
  /\ UNCHANGED world_vars

\* line 105 raises
RowBadLine ==
  /\ HasRow
  /\ RowRaisesAtBlankTest(Row)
  /\ pc' = "raised"
  /\ UNCHANGED <<window_days, today, reader, musicals, seen_ids, stderr, kept,
                 out_file, opens, lc>>
  /\ UNCHANGED world_vars

\* faulty variant: the id of a hidden row is recorded as seen
RowHidden_MarksSeen ==
  /\ pc = "rows" /\ reader <= Len(sheet.rows)
  /\ ~AllBlank(sheet.rows[reader])
  /\ ~is_visible_on_app(BuildObj(sheet.rows[reader]))
  /\ seen_ids' = seen_ids \cup {ShowId(BuildObj(sheet.rows[reader]))}
  /\ reader' = reader + 1
  /\ UNCHANGED <<pc, window_days, today, musicals, stderr, kept, out_file, opens, lc>>
  /\ UNCHANGED world_vars

\* lines 116-117
RowHidden ==
  /\ HasRow
  /\ ~AllBlank(Row)
  /\ ~is_visible_on_app(BuildObj(Row))
  /\ reader' = reader + 1
  /\ UNCHANGED <<pc, window_days, today, musicals, seen_ids, stderr, kept,
                 out_file, opens, lc>>
  /\ UNCHANGED world_vars

\* lines 123-125
RowMissingId ==
  /\ HasRow
  /\ ~AllBlank(Row)
  /\ is_visible_on_app(BuildObj(Row))
  /\ ~Truthy(ShowId(BuildObj(Row)))
  /\ stderr' = Append(stderr, Diag("missing_id", None, reader))
  /\ reader' = reader + 1
  /\ UNCHANGED <<pc, window_days, today, musicals, seen_ids, kept, out_file, opens, lc>>
  /\ UNCHANGED world_vars

\* lines 127-129
RowDuplicate ==
  /\ HasRow
  /\ ~AllBlank(Row)
  /\ is_visible_on_app(BuildObj(Row))
  /\ Truthy(ShowId(BuildObj(Row)))
  /\ PyIn(ShowId(BuildObj(Row)), seen_ids)
  /\ stderr' = Append(stderr, Diag("duplicate_id", ShowId(BuildObj(Row)), reader))
  /\ reader' = reader + 1
  /\ UNCHANGED <<pc, window_days, today, musicals, seen_ids, kept, out_file, opens, lc>>
  /\ UNCHANGED world_vars

Passes(obj) ==
  /\ is_visible_on_app(obj)
  /\ Truthy(ShowId(obj))
  /\ ~PyIn(ShowId(obj), seen_ids)

\* lines 130-138 when strptime raises: the id is already in seen_ids
RowBadDate ==
  /\ HasRow
  /\ ~AllBlank(Row)
  /\ Passes(BuildObj(Row))
  /\ \/ StartOf(BuildObj(Row)) = ValueError
     \/ CloseOf(BuildObj(Row)) = ValueError
  /\ seen_ids' = seen_ids \cup {ShowId(BuildObj(Row))}
  /\ pc' = "raised"
  /\ UNCHANGED <<window_days, today, reader, musicals, stderr, kept, out_file,
                 opens, lc>>
  /\ UNCHANGED world_vars

\* faulty variant: the id of a kept row is not added to seen_ids
RowKept_NoAdd ==
  /\ pc = "rows" /\ reader <= Len(sheet.rows)
  /\ ~AllBlank(sheet.rows[reader])
  /\ Passes(BuildObj(sheet.rows[reader]))
  /\ StartOf(BuildObj(sheet.rows[reader])) # ValueError
  /\ CloseOf(BuildObj(sheet.rows[reader])) # ValueError
  /\ musicals' = Append(musicals, Annotate(BuildObj(sheet.rows[reader]), today, window_days))
  /\ kept' = Append(kept, reader)
  /\ reader' = reader + 1
  /\ UNCHANGED <<pc, window_days, today, seen_ids, stderr, out_file, opens, lc>>
  /\ UNCHANGED world_vars

\* lines 130-161
RowKept ==
  /\ HasRow
  /\ ~AllBlank(Row)
  /\ Passes(BuildObj(Row))
  /\ StartOf(BuildObj(Row)) # ValueError
  /\ CloseOf(BuildObj(Row)) # ValueError
  /\ seen_ids' = seen_ids \cup {ShowId(BuildObj(Row))}
  /\ musicals' = Append(musicals, Annotate(BuildObj(Row), today, window_days))
  /\ kept' = Append(kept, reader)
  /\ reader' = reader + 1
  /\ UNCHANGED <<pc, window_days, today, stderr, out_file, opens, lc>>
  /\ UNCHANGED world_vars

(***************************************************************************)
(* main(), lines 163-171: the reader is exhausted; the file is opened,     *)
(* the whole list dumped and the file closed.                              *)
(***************************************************************************)
\* faulty variant: the file is rewritten inside the loop, after each row
WriteOut_InLoop ==
  /\ pc = "rows"
  /\ reader > 1
  /\ opens < 3
  /\ out_file' = [written |-> TRUE, content |-> musicals]
  /\ opens' = opens + 1
  /\ pc' = IF reader > Len(sheet.rows) THEN "done" ELSE "rows"
  /\ UNCHANGED <<window_days, today, reader, musicals, seen_ids, stderr, kept, lc>>
  /\ UNCHANGED world_vars

WriteOut ==
  /\ pc = "rows"
  /\ reader > Len(sheet.rows)
  /\ out_file' = [written |-> TRUE, content |-> musicals]
  /\ opens' = opens + 1
  /\ pc' = "done"
  /\ UNCHANGED <<window_days, today, reader, musicals, seen_ids, stderr, kept, lc>>
  /\ UNCHANGED world_vars

Next ==
  \/ StartBadWindow
  \/ StartMissingUrl
  \/ StartOk
  \/ FetchOk
  \/ FetchFails
  \/ RowBlank
  \/ RowBadLine
  \/ RowHidden
  \/ RowMissingId
  \/ RowDuplicate
  \/ RowBadDate
  \/ RowKept
  \/ WriteOut

(***************************************************************************)
(* The worlds a run starts in.                                             *)
(***************************************************************************)
MaxRows == 2          \* rows of a sheet
MaxWindow == 1        \* largest SOON_WINDOW_DAYS set in the environment
MaxClockOffset == 2   \* days the run date ranges over, from FirstClock

Headers == {"ID", "start_date", "close_date", "visible_on_app"}

\* the header rows the sheets of the model have: all four columns, no
\* visible_on_app column, no ID column
FieldNames == {Headers, Headers \ {"visible_on_app"}, Headers \ {"ID"}}

MkRow(id, start, close, vis, rest) ==
  [cells |-> [h \in Headers |->
               CASE h = "ID" -> id
                 [] h = "start_date" -> start
                 [] h = "close_date" -> close
                 [] h = "visible_on_app" -> vis],
   rest |-> rest]

Project(row, F) == [cells |-> [h \in F |-> row.cells[h]], rest |-> row.rest]

Sheets(F, rows, n) ==
  {[fieldnames |-> F, rows |-> r] :
     r \in UNION {[1..k -> {Project(x, F) : x \in rows}] : k \in 0..n}}

E == PyStr(<<>>)
T_oops == <<"o", "o", "p", "s">>
T_start == <<"2", "0", "2", "4", "-", "0", "1", "-", "0", "6">>
T_close == <<"2", "0", "2", "4", "-", "0", "1", "-", "0", "5">>

\* 9 and 9.0 are one id to Python (9 == 9.0), 0 is an id that is falsy
IdCells == {PyStr(<<" ">>), PyStr(<<"0">>), PyStr(<<"9">>), PyStr(<<"9", ".", "0">>),
            PyStr(<<"7">>)}

\* None: the line ends before its last column
VisCells == {None, PyStr(<<"1">>), PyStr(<<"0">>), PyStr(<<"1", ".", "0">>),
             PyStr(<<"t", "r", "u", "e">>)}

StartCells == {E, PyStr(T_oops), PyStr(T_start)}

CloseCells == {E, PyStr(<<"N", "o", "n", "e">>), PyStr(T_sentinel), PyStr(T_close)}

\* a line with more cells than headers: all blank but the extra ones, and not
ExtraRows == {MkRow(E, E, E, E, TRUE),
              MkRow(PyStr(<<"7">>), E, E, PyStr(<<"1">>), TRUE)}

\* rows that differ in the cells the filter reads
FilterRows ==
  {MkRow(i, E, E, v, FALSE) : i \in IdCells, v \in VisCells}
    \cup {MkRow(PyStr(<<"9">>), PyStr(T_oops), E, PyStr(<<"1">>), FALSE)}
    \cup ExtraRows

\* rows that differ in the cells the dates are read from
DateRows ==
  {MkRow(PyStr(<<"9">>), s, c, PyStr(<<"1">>), FALSE) : s \in StartCells, c \in CloseCells}
    \cup {MkRow(PyStr(<<"7">>), PyStr(T_start), E, PyStr(<<"0">>), FALSE),
          MkRow(E, PyStr(T_start), E, PyStr(<<"1">>), FALSE),
          MkRow(E, E, E, None, FALSE),
          MkRow(E, E, E, E, TRUE)}

Env(url, window) == [SHEET_CSV_URL |-> url, SOON_WINDOW_DAYS |-> window]

Url == PyStr(<<"u">>)

\* environments in which the run stops at once
StoppingEnvs == {Env(None, None), Env(E, None), Env(Url, PyStr(<<"x">>)), Env(Url, E)}

FirstClock == PyDate(Ordinal(2024, 1, 5))

Clocks == {PyDate(FirstClock.n + k) : k \in 0..MaxClockOffset}

WindowTexts == {None} \cup {PyStr(NatStr(w)) : w \in 0..MaxWindow}

\* Sheets that vary in id and visibility, read on one day with the default window.
Init ==
  /\ \/ /\ environ = Env(Url, None)
        /\ sheet \in UNION {Sheets(F, FilterRows, MaxRows) : F \in FieldNames}
     \/ /\ environ \in StoppingEnvs
        /\ sheet \in Sheets(Headers, FilterRows, 1)
  /\ clock = FirstClock
  /\ lc = LcIdle
  /\ RunInit

Spec == Init /\ [][Next]_vars

\* Sheets that vary in the date cells, read on several days with several windows.
InitDates ==
  /\ \/ /\ environ \in {Env(Url, w) : w \in WindowTexts}
        /\ sheet \in Sheets(Headers, DateRows, MaxRows)
     \/ /\ environ \in StoppingEnvs
        /\ sheet \in Sheets(Headers, DateRows, 1)
  /\ clock \in Clocks
  /\ lc = LcIdle
  /\ RunInit

SpecDates == InitDates /\ [][Next]_vars

(***************************************************************************)
(* compute_status and compute_soon_flags on their own: every combination   *)
(* of an optional start date, an optional close date, a run date and a     *)
(* window; then the same record annotated again one day earlier.           *)
(***************************************************************************)
MaxDay == 4           \* dates range over the days 1..MaxDay
MaxLcWindow == 2      \* windows range over 0..MaxLcWindow

OptDates == {None} \cup {PyDate(d) : d \in 1..MaxDay}

InitLifecycle ==
  /\ lc \in {[phase |-> "args", start |-> s, close |-> c, today |-> t,
              window_days |-> w, status |-> "", soon |-> NoSoon, prev |-> ""] :
               s \in OptDates, c \in OptDates, t \in OptDates \ {None},
               w \in 0..MaxLcWindow}
  /\ environ = Env(Url, None)
  /\ sheet \in Sheets(Headers, {}, 0)
  /\ clock = FirstClock
  /\ RunInit

\* line 145
LcStatus ==
  /\ lc.phase = "args"
  /\ lc' = [lc EXCEPT !.phase = "status",
                      !.status = compute_status(lc.start, lc.close, lc.today)]
  /\ UNCHANGED run_vars
  /\ UNCHANGED world_vars

\* lines 149-155
LcSoon ==
  /\ lc.phase = "status"
  /\ lc' = [lc EXCEPT !.phase = "soon",
                      !.soon = compute_soon_flags(lc.status, lc.start, lc.close,
                                                  lc.today, lc.window_days)]
  /\ UNCHANGED run_vars
  /\ UNCHANGED world_vars

\* the same record on the day before: lines 145-155 with today one day earlier
LcPrevDay ==
  /\ lc.phase = "soon"
  /\ lc.today.n > 1
  /\ LET t == PyDate(lc.today.n - 1)
         st == compute_status(lc.start, lc.close, t)
     IN lc' = [lc EXCEPT !.today = t,
                         !.prev = lc.status,
                         !.status = st,
                         !.soon = compute_soon_flags(st, lc.start, lc.close, t,
                                                     lc.window_days)]
  /\ UNCHANGED run_vars
  /\ UNCHANGED world_vars

NextLifecycle ==
  \/ LcStatus
  \/ LcSoon
  \/ LcPrevDay

SpecLifecycle == InitLifecycle /\ [][NextLifecycle]_vars

(***************************************************************************)
(* What the properties speak of.                                           *)
(***************************************************************************)
\* the rows the loop has gone past
Processed == IF pc = "rows" \/ pc = "done" THEN 1..(reader - 1) ELSE {}

\* row j reaches the visibility test and passes it
VisibleRow(j) ==
  /\ ~AllBlank(sheet.rows[j])
  /\ is_visible_on_app(BuildObj(sheet.rows[j]))

RowId(j) == ShowId(BuildObj(sheet.rows[j]))

\* the raw text of a cell of row j (None when the line or the sheet lacks it)
RawCell(j, h) ==
  IF h \in DOMAIN sheet.rows[j].cells THEN sheet.rows[j].cells[h] ELSE None

KeptRows == {kept[i] : i \in 1..Len(kept)}

Warned(msg, j) == \E k \in 1..Len(stderr) : stderr[k].msg = msg /\ stderr[k].row = j

\* the record built from row j, when it was kept
RecordOf(j) == musicals[CHOOSE i \in 1..Len(kept) : kept[i] = j]

(***************************************************************************)
(* C1. No two records of the output have the same id; the record kept for  *)
(* an id is the one built from the first visible row carrying that id, and *)
(* every later visible row with that id is dropped with a duplicate        *)
(* warning.                                                                *)
(***************************************************************************)
C1_UniqueFirstWins ==
  /\ Len(kept) = Len(musicals)
  /\ \A i \in 1..Len(musicals) : \A j \in 1..Len(musicals) :
       i # j => ~PyEq(musicals[i]["id"], musicals[j]["id"])
  /\ \A i \in 1..Len(musicals) :
       /\ PyEq(musicals[i]["id"], RowId(kept[i]))
       /\ VisibleRow(kept[i])
       /\ \A j \in 1..(kept[i] - 1) :
            VisibleRow(j) => ~PyEq(RowId(j), RowId(kept[i]))
       /\ \A j \in Processed :
            (j > kept[i] /\ VisibleRow(j) /\ PyEq(RowId(j), RowId(kept[i])))
              => (j \notin KeptRows /\ Warned("duplicate_id", j))

\* two visible rows carried the same id: the first was kept, the second warned
C1_Witness ==
  /\ pc = "done"
  /\ \E i \in 1..Len(kept) : \E j \in Processed :
       /\ j > kept[i]
       /\ VisibleRow(j)
       /\ PyEq(RowId(j), RowId(kept[i]))
       /\ Warned("duplicate_id", j)
       /\ out_file.content = musicals

(***************************************************************************)
(* C2. A record passes the visibility check only when its normalized       *)
(* visible_on_app value is exactly the integer 1 or the text "1"; a row    *)
(* with any other value (a float among them) is absent from the output.    *)
(***************************************************************************)
ExactlyOne(v) == v = PyInt(1) \/ v = PyStr(<<"1">>)

C2_VisibleOnlyOnExactOne ==
  \A i \in 1..Len(musicals) :
    /\ "visible_on_app" \in DOMAIN musicals[i]
    /\ ExactlyOne(normalize_cell(RawCell(kept[i], "visible_on_app")))

(***************************************************************************)
(* C3. A visible row whose ID cell is present and not blank is never       *)
(* dropped as 'missing id': only rows whose ID cell is absent or blank get *)
(* the missing-id warning, and at the end the output has one record for    *)
(* each visible row with a non-blank id not carried by an earlier one.     *)
(***************************************************************************)
C3_NonBlankIdIsKept ==
  /\ \A j \in Processed :
       Warned("missing_id", j) => Blank(RawCell(j, "ID"))
  /\ pc = "done" =>
       Len(musicals) =
         Cardinality({j \in Processed :
                        /\ VisibleRow(j)
                        /\ ~Blank(RawCell(j, "ID"))
                        /\ \A k \in 1..(j - 1) :
                             ~(VisibleRow(k) /\ PyEq(RowId(k), RowId(j)))})

(***************************************************************************)
(* C9. No partial output: the file is opened at most once, only after      *)
(* every row has been processed, and holds the complete list of surviving  *)
(* records; a run that stops earlier (no source location, which exits      *)
(* before any fetch; a failed fetch; an error on a row) never opens the    *)
(* file and leaves the prior file as it was.                               *)
(***************************************************************************)
C9_NoPartialOutput ==
  /\ opens <= 1
  /\ (opens = 1) = (pc = "done")
  /\ pc = "done" =>
       /\ reader = Len(sheet.rows) + 1
       /\ out_file = [written |-> TRUE, content |-> musicals]
       /\ \A j \in 1..Len(sheet.rows) :
            (j \in KeptRows) =
              (/\ VisibleRow(j)
               /\ Truthy(RowId(j))
               /\ \A k \in 1..(j - 1) : ~(VisibleRow(k) /\ PyEq(RowId(k), RowId(j))))
  /\ pc # "done" => out_file = PriorFile
  /\ pc = "exit1" =>
       /\ ~Truthy(environ.SHEET_CSV_URL)
       /\ today = None /\ reader = 0
       /\ Warned("missing_url", 0)

\* a run with a warning and a record wrote its file, once, at the end
C9_Witness ==
  /\ pc = "done"
  /\ opens = 1
  /\ Len(out_file.content) >= 1
  /\ Len(stderr) >= 1
  /\ Len(sheet.rows) >= 2

(***************************************************************************)
(* C10. The checks run in the order visibility, identity, uniqueness: a    *)
(* row that is not visible is dropped with no warning, whatever its id,    *)
(* and leaves seen_ids and the output unchanged, so that a later visible   *)
(* row with the same id is still kept; a row dropped for a missing or a    *)
(* duplicate id gets its warning and leaves seen_ids and the output        *)
(* unchanged.                                                              *)
(***************************************************************************)
RowStep == pc = "rows" /\ reader <= Len(sheet.rows) /\ ~AllBlank(sheet.rows[reader])

C10_FilterOrderAndFrame ==
  [][RowStep =>
       /\ ~is_visible_on_app(BuildObj(Row)) =>
            /\ stderr' = stderr /\ seen_ids' = seen_ids /\ musicals' = musicals
            /\ reader' = reader + 1 /\ pc' = "rows"
       /\ (is_visible_on_app(BuildObj(Row)) /\ ~Truthy(RowId(reader))) =>
            /\ stderr' = Append(stderr, Diag("missing_id", None, reader))
            /\ seen_ids' = seen_ids /\ musicals' = musicals
            /\ reader' = reader + 1 /\ pc' = "rows"
       /\ (is_visible_on_app(BuildObj(Row)) /\ Truthy(RowId(reader))
             /\ PyIn(RowId(reader), seen_ids)) =>
            /\ stderr' = Append(stderr, Diag("duplicate_id", RowId(reader), reader))
            /\ seen_ids' = seen_ids /\ musicals' = musicals
            /\ reader' = reader + 1 /\ pc' = "rows"
       /\ (is_visible_on_app(BuildObj(Row)) /\ Truthy(RowId(reader))
             /\ ~PyIn(RowId(reader), {musicals[i]["id"] : i \in 1..Len(musicals)})) =>
            \/ pc' = "raised"
            \/ /\ Len(musicals') = Len(musicals) + 1
               /\ PyEq(musicals'[Len(musicals')]["id"], RowId(reader))
               /\ stderr' = stderr
  ]_vars

\* a hidden row carried an id, and the later visible row with that id was kept
C10_Witness ==
  /\ pc = "done"
  /\ \E i \in 1..Len(kept) : \E j \in 1..(kept[i] - 1) :
       /\ ~AllBlank(sheet.rows[j])
       /\ ~VisibleRow(j)
       /\ Truthy(RowId(j))
       /\ PyEq(RowId(j), RowId(kept[i]))
       /\ stderr = <<>>

(***************************************************************************)
(* C4. A visible row with a valid, not yet seen id whose start_date cell   *)
(* is text that is no YYYY-MM-DD date raises no error: the run goes on,    *)
(* the record is in the output with no start date, and its status is       *)
(* 'inactive' or 'active', never 'future'.                                 *)
(***************************************************************************)
\* the start_date cell of row j is text that strict parsing rejects
UnparsableStart(j) ==
  LET c == RawCell(j, "start_date")
  IN /\ ~Blank(c)
     /\ lower(strip(c.s)) # T_none
     /\ strptime(strip(c.s)) = ValueError

FirstWithItsId(j) ==
  /\ VisibleRow(j)
  /\ Truthy(RowId(j))
  /\ \A k \in 1..(j - 1) : ~(VisibleRow(k) /\ PyEq(RowId(k), RowId(j)))

C4_BadStartIsNoDate ==
  \A j \in 1..Len(sheet.rows) :
    (FirstWithItsId(j) /\ UnparsableStart(j)) =>
      /\ ~(pc = "raised" /\ reader = j)
      /\ j \in Processed =>
           /\ j \in KeptRows
           /\ RecordOf(j)["status"] \in {"inactive", "active"}
           /\ RecordOf(j)["days_until_start"] = None

(***************************************************************************)
(* C6. For every kept record whose close_date cell is an open-ended        *)
(* placeholder (blank, "none" in any letter case, 2099-12-31) the close    *)
(* date is absent on every run date: status is never 'inactive' (it is     *)
(* 'active' when there is no start date or today >= start),                *)
(* days_until_close is null and closing_soon is false.                     *)
(***************************************************************************)
OpenEndedCell(c) ==
  \/ Blank(c)
  \/ lower(strip(c.s)) = T_none
  \/ strip(c.s) = T_sentinel

C6_OpenEndedNeverInactive ==
  \A i \in 1..Len(musicals) :
    OpenEndedCell(RawCell(kept[i], "close_date")) =>
      LET m == musicals[i]
          start == StartOf(BuildObj(sheet.rows[kept[i]]))
      IN /\ m["status"] # "inactive"
         /\ (m["status"] = "active") = (start = None \/ today.n >= start.n)
         /\ m["days_until_close"] = None
         /\ m["closing_soon"] = FALSE

\* the sentinel close date on a record whose start is in the past
C6_Witness ==
  \E i \in 1..Len(musicals) :
    /\ RawCell(kept[i], "close_date") = PyStr(T_sentinel)
    /\ RawCell(kept[i], "start_date") = PyStr(T_start)
    /\ today.n > strptime(T_start).n
    /\ musicals[i]["status"] = "active"
    /\ pc = "done"

(***************************************************************************)
(* C8. For every kept record and window_days >= 0: days_until_start is     *)
(* start - today and days_until_close is close - today, null without the   *)
(* date; coming_soon holds exactly when status is 'future' and             *)
(* 0 <= days_until_start <= window_days; closing_soon holds exactly when   *)
(* status is 'active' and 0 <= days_until_close <= window_days.  A future  *)
(* record that starts later than the window has coming_soon false and is   *)
(* in the output.                                                          *)
(***************************************************************************)
C8_SoonFlags ==
  window_days >= 0 =>
    \A i \in 1..Len(musicals) :
       LET m == musicals[i]
           start == StartOf(BuildObj(sheet.rows[kept[i]]))
           close == CloseOf(BuildObj(sheet.rows[kept[i]]))
           dus == m["days_until_start"]
           duc == m["days_until_close"]
       IN /\ dus = (IF start = None THEN None ELSE PyInt(start.n - today.n))
          /\ duc = (IF close = None THEN None ELSE PyInt(close.n - today.n))
          /\ m["coming_soon"] =
               (m["status"] = "future" /\ dus # None /\ 0 <= dus.n /\ dus.n <= window_days)
          /\ m["closing_soon"] =
               (m["status"] = "active" /\ duc # None /\ 0 <= duc.n /\ duc.n <= window_days)

\* a future record beyond the window is written with coming_soon false
C8_Witness ==
  /\ pc = "done"
  /\ \E i \in 1..Len(out_file.content) :
       /\ out_file.content[i]["status"] = "future"
       /\ out_file.content[i]["days_until_start"].n > window_days
       /\ out_file.content[i]["coming_soon"] = FALSE

Rank(st) == CASE st = "inactive" -> 0 [] st = "active" -> 1 [] st = "future" -> 2

\* the claim as stated
C7_Original ==
  lc.prev # "" =>
    /\ Rank(lc.status) >= Rank(lc.prev)
    /\ Rank(lc.status) <= Rank(lc.prev) + 1

\* the claim as amended: never backward; inactive is followed at once by
\* future exactly when the record starts after it closes
C7_MonotoneStatus ==
  lc.prev # "" =>
    /\ Rank(lc.status) >= Rank(lc.prev)
    /\ (Rank(lc.status) > Rank(lc.prev) + 1) =>
         (lc.start # None /\ lc.close # None /\ lc.start.n > lc.close.n)
    /\ (lc.start = None \/ lc.close = None \/ lc.start.n <= lc.close.n) =>
         Rank(lc.status) <= Rank(lc.prev) + 1

\* a day earlier the record went from active to future
C7_Witness ==
  /\ lc.prev = "active"
  /\ lc.status = "future"
  /\ lc.close # None
  /\ lc.start.n <= lc.close.n

====
